---- MODULE Spec2Model ----
(***************************************************************************)
(* A model of lambda/translate_function.py: the translation Lambda.  One   *)
(* invocation of lambda_handler is a sequential pass through the router,   *)
(* one of the three handlers, the validator, the per-item translation loop *)
(* and the persistence adapters.  The external collaborators (Translate,   *)
(* S3, DynamoDB) succeed or fail nondeterministically at every call.       *)
(*                                                                         *)
(* Values.  A Python string is a sequence of character tokens:             *)
(*   "sp"  one ASCII space            (1 char, 1 UTF-8 byte)               *)
(*   "a"   one ASCII letter           (1 char, 1 UTF-8 byte)               *)
(*   "e2"  one two-byte character     (1 char, 2 UTF-8 bytes)              *)
(*   "K"   a run of 4999 ASCII letters (4999 chars, 4999 bytes)            *)
(*   "sur" one lone surrogate: str.encode('utf-8') raises on it            *)
(* A JSON value is a record with a type tag t.                             *)
(***************************************************************************)
EXTENDS Integers, Sequences, FiniteSets, TLC

\* ------------------------------------------------------------------ bounds
\* longest texts list enumerated item by item
MaxTexts == 2
\* longest Records list of a storage notification
MaxRecords == 2

\* ------------------------------------------------------- program constants
MAX_TEXTS == 100
MAX_TEXT_BYTES == 5000
max_retries == 3

SUPPORTED_LANGUAGES ==
    { "af", "sq", "am", "ar", "hy", "az", "bn", "bs", "bg", "ca", "zh",
      "zh-TW", "hr", "cs", "da", "fa-AF", "nl", "en", "et", "fa", "tl",
      "fi", "fr", "fr-CA", "ka", "de", "el", "gu", "ht", "ha", "he", "hi",
      "hu", "is", "id", "ga", "it", "ja", "kn", "kk", "ko", "lv", "lt",
      "mk", "ms", "ml", "mt", "mr", "mn", "no", "ps", "pl", "pt", "pt-PT",
      "pa", "ro", "ru", "sr", "si", "sk", "sl", "so", "es", "es-MX", "sw",
      "sv", "ta", "te", "th", "tr", "uk", "ur", "uz", "vi", "cy" }

\* --------------------------------------------------------- Python strings
\* number of characters of one token (len of a str counts characters)
CharLen(c) == IF c = "K" THEN 4999 ELSE 1

\* number of UTF-8 bytes of one token
CharBytes(c) == CASE c = "K" -> 4999 [] c = "e2" -> 2 [] OTHER -> 1

\* len(text)
RECURSIVE StrLen(_)
StrLen(s) == IF s = <<>> THEN 0 ELSE CharLen(Head(s)) + StrLen(Tail(s))

\* text.encode('utf-8') raises UnicodeEncodeError on a lone surrogate
EncodeRaises(s) == \E k \in 1..Len(s) : s[k] = "sur"

\* len(text.encode('utf-8')), defined when the encoding does not raise
RECURSIVE Utf8Len(_)
Utf8Len(s) == IF s = <<>> THEN 0 ELSE CharBytes(Head(s)) + Utf8Len(Tail(s))

RECURSIVE LStrip(_)
LStrip(s) == IF s # <<>> /\ Head(s) = "sp" THEN LStrip(Tail(s)) ELSE s

RECURSIVE RStrip(_)
RStrip(s) ==
    IF s # <<>> /\ s[Len(s)] = "sp" THEN RStrip(SubSeq(s, 1, Len(s) - 1)) ELSE s

\* text.strip()
Strip(s) == RStrip(LStrip(s))

\* ------------------------------------------------------------ JSON values
\* a text item: a string, or a value of another type (a number)
StrItem(s) == [t |-> "str", chars |-> s]
NumItem == [t |-> "num", chars |-> <<>>]

\* a language value: a string code, or a value of another type
StrLang(c) == [t |-> "str", code |-> c]
NumLang == [t |-> "num", code |-> "5"]

\* the texts value: a list of items, or a value of another type (a string)
ListTexts(items) == [t |-> "list", items |-> items]
StrTexts == [t |-> "str", items |-> <<>>]

\* the value None and the values used where a field is absent
NoLang == [t |-> "absent", code |-> ""]
NoTexts == [t |-> "absent", items |-> <<>>]

\* a request mapping: t is the Python type, keys the keys present
RequestFields == <<"source_language", "target_language", "texts">>

Request(t, keys, src, tgt, texts) ==
    [t |-> t, keys |-> keys, source_language |-> src,
     target_language |-> tgt, texts |-> texts]

\* bool(value): an empty dict, list or str and None are falsy
Truthy(v) == v.t # "null" /\ v.keys # {}

\* ---------------------------------------------------------------- validator
\* the reason of a failed validation; code "none" is the value None
ValidationError(code, field, lang, index, n) ==
    [code |-> code, field |-> field, lang |-> lang, index |-> index, n |-> n]

NoError == ValidationError("none", "", NoLang, 0, 0)

Invalid(code, field, lang, index, n) ==
    [valid |-> FALSE, error |-> ValidationError(code, field, lang, index, n)]

\* isinstance(lang, str) and lang in SUPPORTED_LANGUAGES
LanguageSupported(lang) == lang.t = "str" /\ lang.code \in SUPPORTED_LANGUAGES

\* the per-item check of the loop over texts: "ok" or the kind of failure
ItemCheck(text) ==
    IF text.t # "str" THEN "item_not_string"
    ELSE IF EncodeRaises(text.chars) THEN "exception"
    ELSE IF Utf8Len(text.chars) > MAX_TEXT_BYTES THEN "item_too_long"
    ELSE "ok"

\* the 1-based position of the first item failing its check, 0 if none
FirstBadItem(items) ==
    IF \A k \in 1..Len(items) : ItemCheck(items[k]) = "ok" THEN 0
    ELSE CHOOSE k \in 1..Len(items) :
            /\ ItemCheck(items[k]) # "ok"
            /\ \A j \in 1..(k - 1) : ItemCheck(items[j]) = "ok"

\* the first of the required fields that is absent, "" if none
FirstMissingField(rd) ==
    IF \A k \in 1..Len(RequestFields) : RequestFields[k] \in rd.keys THEN ""
    ELSE RequestFields[CHOOSE k \in 1..Len(RequestFields) :
            /\ RequestFields[k] \notin rd.keys
            /\ \A j \in 1..(k - 1) : RequestFields[j] \in rd.keys]

CheckItems(items) ==
    LET k == FirstBadItem(items) IN
    IF k = 0 THEN [valid |-> TRUE, error |-> NoError]
    ELSE IF ItemCheck(items[k]) = "item_too_long"
         THEN Invalid("item_too_long", "", NoLang, k - 1, Utf8Len(items[k].chars))
         ELSE Invalid(ItemCheck(items[k]), "", NoLang, k - 1, 0)

CheckTexts(texts) ==
    IF texts.t # "list" THEN Invalid("texts_not_list", "", NoLang, 0, 0)
    ELSE IF texts.items = <<>> THEN Invalid("texts_empty", "", NoLang, 0, 0)
    ELSE IF Len(texts.items) > MAX_TEXTS
         THEN Invalid("too_many", "", NoLang, 0, Len(texts.items))
    ELSE CheckItems(texts.items)

\* mutant: the target language is checked before the source language
CheckLanguagesTargetFirst(rd) ==
    IF ~LanguageSupported(rd.target_language)
        THEN Invalid("bad_target", "", rd.target_language, 0, 0)
    ELSE IF ~LanguageSupported(rd.source_language)
        THEN Invalid("bad_source", "", rd.source_language, 0, 0)
    ELSE CheckTexts(rd.texts)

CheckLanguages(rd) ==
    IF ~LanguageSupported(rd.source_language)
        THEN Invalid("bad_source", "", rd.source_language, 0, 0)
    ELSE IF ~LanguageSupported(rd.target_language)
        THEN Invalid("bad_target", "", rd.target_language, 0, 0)
    ELSE CheckTexts(rd.texts)

validate_translation_request(rd) ==
    IF ~Truthy(rd) \/ rd.t # "dict" THEN Invalid("not_object", "", NoLang, 0, 0)
    ELSE IF FirstMissingField(rd) # ""
        THEN Invalid("missing", FirstMissingField(rd), NoLang, 0, 0)
    ELSE CheckLanguages(rd)

\* mutant: the handlers go on after a failed validation
ValidationFailedNever(result) == FALSE

\* if not validation_result['valid']: the test each handler makes
ValidationFailed(result) == ~result.valid

\* --------------------------------------------------- environment variables
REQUEST_BUCKET_NAME == "request-bucket"
RESPONSE_BUCKET_NAME == "response-bucket"

\* os.environ.get(...) of the four names; "" is None (not configured)
Environment(req, resp, users, translations) ==
    [REQUEST_BUCKET |-> req, RESPONSE_BUCKET |-> resp,
     USER_DATA_TABLE |-> users, TRANSLATION_TABLE |-> translations]

Environments ==
    { Environment(REQUEST_BUCKET_NAME, RESPONSE_BUCKET_NAME, "users", "translations"),
      Environment(REQUEST_BUCKET_NAME, "", "users", ""),
      Environment("", RESPONSE_BUCKET_NAME, "", "translations"),
      Environment("", "", "", "") }

\* ------------------------------------------------------------ input pools
GoodItems ==
    { StrItem(<<>>), StrItem(<<"sp">>), StrItem(<<"a">>),
      StrItem(<<"sp", "a", "sp">>), StrItem(<<"K", "a">>) }

BadItems == { StrItem(<<"K", "e2">>), StrItem(<<"sur">>), NumItem }

SeqsUpTo(S, n) == UNION { [1..k -> S] : k \in 0..n }

BlankList(n) == [k \in 1..n |-> StrItem(<<>>)]

TextsPool ==
    { ListTexts(l) : l \in SeqsUpTo(GoodItems \cup BadItems, MaxTexts) }
    \cup { ListTexts(BlankList(MAX_TEXTS)), ListTexts(BlankList(MAX_TEXTS + 1)),
           StrTexts }

SourcePool == { StrLang("en"), StrLang("xx"), NumLang }
TargetPool == { StrLang("es"), StrLang("xx") }

\* every dict built from the pools, each required key present or absent
DictRequests ==
    { Request("dict", keys, src, tgt, texts) :
        keys \in SUBSET {"source_language", "target_language", "texts"},
        src \in SourcePool \cup {NoLang}, tgt \in TargetPool \cup {NoLang},
        texts \in TextsPool \cup {NoTexts} }

WellKeyed(rd) ==
    /\ ("source_language" \in rd.keys) = (rd.source_language # NoLang)
    /\ ("target_language" \in rd.keys) = (rd.target_language # NoLang)
    /\ ("texts" \in rd.keys) = (rd.texts # NoTexts)

NoneValue == Request("null", {}, NoLang, NoLang, NoTexts)
OtherValue(t, keys) == Request(t, keys, NoLang, NoLang, NoTexts)

\* the JSON values a body or a file can hold
RequestPool ==
    { rd \in DictRequests : WellKeyed(rd) }
    \cup { OtherValue("dict", {"other"}), OtherValue("list", {"other"}),
           OtherValue("list", {}), OtherValue("str", {"other"}),
           OtherValue("num", {"other"}), NoneValue }

ARequest(items) ==
    Request("dict", {"source_language", "target_language", "texts"},
            StrLang("en"), StrLang("es"), ListTexts(items))

\* a few requests, for the inputs that vary something else
SmallRequestPool ==
    { ARequest(<<StrItem(<<"a">>)>>),
      ARequest(<<StrItem(<<"sp", "a", "sp">>), StrItem(<<>>)>>),
      ARequest(<<NumItem>>),
      Request("dict", {"source_language", "texts"}, StrLang("en"), NoLang,
              ListTexts(<<StrItem(<<"a">>)>>)) }

\* ------------------------------------------------------------------ events
\* event['body'] as the gateway delivers it
\*   "absent"   no body key            "empty"    the empty string
\*   "garbage"  text that is not JSON  "json"     the JSON text of value
\*   "b64json"  base64 of the JSON text of value
\*   "object"   a value that was parsed already (not a str)
Body(kind, value) == [kind |-> kind, value |-> value]
NoBody == Body("absent", NoneValue)

\* a user id is a string, kept as a sequence of its parts
ANONYMOUS == <<"anonymous">>
NoId == <<>>

\* event['requestContext']: the authorizer and identity entries that
\* extract_user_id reads.  claims and lambda are the two id candidates of
\* authorizer['claims'] and authorizer['lambda'] (<<>> when the entry is
\* absent), an id of <<>> is an absent or None value
RequestContext(t, claims, lambda, principal, userArn, sourceIp) ==
    [t |-> t, claims |-> claims, lambda |-> lambda, principalId |-> principal,
     userArn |-> userArn, sourceIp |-> sourceIp]

\* where 'principalId' is not a key of the authorizer
NoPrincipal == <<"<absent>">>

NoContext == RequestContext("absent", <<>>, <<>>, NoPrincipal, NoId, NoId)
EmptyContext == RequestContext("dict", <<>>, <<>>, NoPrincipal, NoId, NoId)
ClaimsContext ==
    RequestContext("dict", << <<"u1">>, NoId >>, <<>>, NoPrincipal, NoId, NoId)

ContextPool ==
    { EmptyContext, ClaimsContext,
      RequestContext("dict", <<NoId, <<"name1">> >>, <<>>, NoPrincipal, NoId, NoId),
      RequestContext("dict", <<NoId, NoId>>, <<NoId, <<"p1">> >>, NoPrincipal, NoId, NoId),
      RequestContext("dict", <<>>, <<NoId, NoId>>, ANONYMOUS, <<"arn:u">>, NoId),
      RequestContext("dict", <<>>, <<>>, NoId, NoId, NoId),
      RequestContext("dict", <<>>, <<>>, NoPrincipal, <<"arn:u">>, <<"10.0.0.1">>),
      RequestContext("dict", <<>>, <<>>, NoPrincipal, NoId, <<"10.0.0.1">>),
      RequestContext("str", <<>>, <<>>, NoPrincipal, NoId, NoId) }

\* one record of a storage notification; a malformed record lacks the
\* 's3' entry.  key is the object key as sent (URL-encoded), in tokens
S3Record(wellformed, bucket, key) ==
    [wellformed |-> wellformed, bucket |-> bucket, key |-> key]

KeyPool ==
    { <<"a", ".json">>, <<"b", "+", "c", ".JSON">>, <<"a", ".txt">>,
      <<"api-request-", "a", ".json">> }

RecordPool ==
    { S3Record(TRUE, REQUEST_BUCKET_NAME, k) : k \in KeyPool }
    \cup { S3Record(TRUE, "other-bucket", k) : k \in {<<"a", ".json">>, <<"a", ".txt">>} }
    \cup { S3Record(FALSE, "", <<>>) }

\* the records that follow the first one of a notification
TailRecordPool ==
    { S3Record(TRUE, REQUEST_BUCKET_NAME, <<"a", ".json">>),
      S3Record(TRUE, "other-bucket", <<"a", ".json">>),
      S3Record(FALSE, "", <<>>) }

\* the Records lists of at most n records
RecordLists(n) ==
    { <<>> } \cup UNION { { <<r>> \o tail : r \in RecordPool,
                                          tail \in [1..k -> TailRecordPool] } :
                          k \in 0..(n - 1) }

\* event['Records']: a list, or a value that cannot be iterated
RecordsValue(t, items) == [t |-> t, items |-> items]
NoRecords == RecordsValue("absent", <<>>)

\* the event: t is its Python type, keys the keys it holds (for a list or
\* a str: the marker words it contains); rd gives the request fields
Event(t, markers, method, body, b64, ctx, records, rd) ==
    [t |-> t, keys |-> markers \cup rd.keys,
     source_language |-> rd.source_language,
     target_language |-> rd.target_language, texts |-> rd.texts,
     httpMethod |-> method, body |-> body, isBase64Encoded |-> b64,
     requestContext |-> ctx, Records |-> records]

HttpKeys == {"httpMethod", "requestContext", "body"}

BodyPool ==
    { Body("json", rd) : rd \in RequestPool }
    \cup { NoBody, Body("empty", NoneValue), Body("garbage", NoneValue) }

HttpEvents ==
    { Event("dict", HttpKeys, "POST", body, FALSE, EmptyContext, NoRecords, NoneValue) :
        body \in BodyPool }
    \cup { Event("dict", HttpKeys, "POST", Body(kind, rd), b64, ClaimsContext,
                 NoRecords, NoneValue) :
             kind \in {"json", "b64json", "object"}, b64 \in BOOLEAN,
             rd \in SmallRequestPool }
    \cup { Event("dict", HttpKeys, method, Body("json", rd), FALSE, ClaimsContext,
                 NoRecords, NoneValue) :
             method \in {"OPTIONS", "GET"}, rd \in SmallRequestPool }
    \cup { Event("dict", HttpKeys, "OPTIONS", body, b64, EmptyContext, NoRecords,
                 NoneValue) :
             body \in {NoBody, Body("garbage", NoneValue)}, b64 \in BOOLEAN }
    \cup { Event("dict", keys, "POST", Body("json", rd), FALSE, ctx, NoRecords,
                 NoneValue) :
             keys \in {{"httpMethod", "body"}, {"requestContext", "body"}},
             ctx \in ContextPool, rd \in {ARequest(<<StrItem(<<"a">>)>>)} }
    \cup { Event(t, {"httpMethod"}, "", NoBody, FALSE, NoContext, NoRecords,
                 NoneValue) : t \in {"list", "str"} }

S3Events ==
    { Event("dict", {"Records"}, "", NoBody, FALSE, NoContext,
            RecordsValue("list", l), NoneValue) :
        l \in RecordLists(MaxRecords) }
    \cup { Event("dict", {"Records"} \cup extra, "POST", Body("json", rd), FALSE,
                 ClaimsContext, RecordsValue("list", l), NoneValue) :
             extra \in {{"httpMethod", "body"}, {"requestContext", "body"}},
             rd \in {ARequest(<<StrItem(<<"a">>)>>)},
             l \in RecordLists(1) }
    \cup { Event("dict", {"Records"}, "", NoBody, FALSE, NoContext,
                 RecordsValue("num", <<>>), NoneValue),
           Event("str", {"Records"}, "", NoBody, FALSE, NoContext, NoRecords,
                 NoneValue) }

DirectEvents ==
    { Event(rd.t, {}, "", NoBody, FALSE, NoContext, NoRecords, rd) :
        rd \in RequestPool }

Events == HttpEvents \cup S3Events \cup DirectEvents

\* ------------------------------------------------------------------- state
VARIABLES
    pc,                 \* position of the invocation
    env,                \* the environment variables of the process
    event,              \* the event handed to lambda_handler
    handler,            \* the handler the router dispatched to
    request_data,       \* the request being handled
    validation_result,  \* what validate_translation_request returned
    user_id,            \* the resolved user id
    i,                  \* perform_translation: items handled so far
    retry_count,        \* perform_translation: failed attempts of item i
    translations,       \* perform_translation: the per-item results
    successful_count,
    failed_count,
    total_characters,
    errors,             \* perform_translation: indices of the failed items
    translation_result, \* what perform_translation returned
    rec,                \* handle_s3_event: records handled so far
    processed_files,    \* handle_s3_event: the per-file results
    log,                \* every collaborator call and handler entry, in order
    response            \* what lambda_handler returned

vars ==
    << pc, env, event, handler, request_data, validation_result, user_id, i,
       retry_count, translations, successful_count, failed_count,
       total_characters, errors, translation_result, rec, processed_files,
       log, response >>

loopVars ==
    << i, retry_count, translations, successful_count, failed_count,
       total_characters, errors >>

\* ------------------------------------------------------ results and bodies
NoValidation == [valid |-> FALSE, error |-> ValidationError("not_run", "", NoLang, 0, 0)]

NullText == [t |-> "null", chars |-> <<>>]

\* mutant: the trimmed text is echoed back instead of the input
ItemResultTrimmed(text, translated, index, status, reason) ==
    [original_text |-> [t |-> text.t, chars |-> Strip(text.chars)],
     translated_text |-> translated, index |-> index, status |-> status,
     reason |-> reason]

\* one entry of translations
ItemResult(text, translated, index, status, reason) ==
    [original_text |-> text, translated_text |-> translated, index |-> index,
     status |-> status, reason |-> reason]

\* round(num / den, 0) as Python rounds a float: half to even
RoundHalfEven(num, den) ==
    LET q == num \div den
        r == num % den
    IN  IF 2 * r < den THEN q
        ELSE IF 2 * r > den THEN q + 1
        ELSE IF q % 2 = 0 THEN q ELSE q + 1

\* round(successful / total * 100, 2), in hundredths of a percent
SuccessRate(successful, total) ==
    IF total > 0 THEN RoundHalfEven(successful * 10000, total) ELSE 0

\* round(total_characters / successful, 2), in hundredths
AverageChars(chars, successful) ==
    IF successful > 0 THEN RoundHalfEven(chars * 100, successful) ELSE 0

\* mutant: the skipped items are not counted
CountStatusNone(ts, status) == 0

CountStatus(ts, status) == Cardinality({ k \in 1..Len(ts) : ts[k].status = status })

NoResult ==
    [request_metadata |->
        [source_language |-> NoLang, target_language |-> NoLang,
         total_texts |-> 0, successful_translations |-> 0,
         failed_translations |-> 0, skipped_translations |-> 0,
         user_id |-> NoId],
     translations |-> <<>>,
     summary |-> [success_rate |-> 0, total_characters_translated |-> 0,
                  average_characters_per_translation |-> 0],
     errors |-> <<>>]

\* the message of a response body: a fixed text, or a validator reason
Message(text, reason) == [text |-> text, reason |-> reason]

\* a response body: the keys of the JSON object and what they carry
ResponseBody(fields, message, result, files) ==
    [fields |-> fields, message |-> message, result |-> result, files |-> files]

\* what a function call ends in: a returned response or a raised exception
Return(statusCode, body) ==
    [kind |-> "return", statusCode |-> statusCode, body |-> body, exc |-> ""]

Raise(exc) ==
    [kind |-> "raise", statusCode |-> 0,
     body |-> ResponseBody({}, Message("", NoError), NoResult, <<>>), exc |-> exc]

NoResponse ==
    [kind |-> "none", statusCode |-> 0,
     body |-> ResponseBody({}, Message("", NoError), NoResult, <<>>), exc |-> ""]

\* mutant: lambda_handler has no except clause
LambdaHandlerNoExcept(outcome) == outcome

\* create_api_gateway_response(500, ...) of the except clause of lambda_handler
LambdaHandlerExcept(outcome) ==
    IF outcome.kind = "raise"
    THEN Return(500, ResponseBody({"error", "message", "request_id", "timestamp"},
                    Message("Internal server error", NoError), NoResult, <<>>))
    ELSE outcome

\* mutant: the 500 body is built like that of the other two handlers
HandleApiGatewayExceptShortBody(outcome) ==
    IF outcome.kind = "raise"
    THEN Return(500, ResponseBody({"error", "message"},
                    Message("Error processing request", NoError), NoResult, <<>>))
    ELSE outcome

\* the except clause of handle_api_gateway_event
HandleApiGatewayExcept(outcome) ==
    IF outcome.kind = "raise"
    THEN Return(500, ResponseBody({"error", "message", "request_id", "timestamp"},
                    Message("Error processing request", NoError), NoResult, <<>>))
    ELSE outcome

\* the except clause of handle_s3_event
HandleS3Except(outcome) ==
    IF outcome.kind = "raise"
    THEN Return(500, ResponseBody({"error", "message"},
                    Message("Error processing S3 event", NoError), NoResult, <<>>))
    ELSE outcome

\* the except clause of handle_direct_invocation
HandleDirectExcept(outcome) ==
    IF outcome.kind = "raise"
    THEN Return(500, ResponseBody({"error", "message"},
                    Message("Error processing direct invocation", NoError),
                    NoResult, <<>>))
    ELSE outcome

\* one entry of the log: index is the position of the text item in texts,
\* record the position of the storage record being processed (0 if none)
LogEntry(op, target, ok, text, index, record) ==
    [op |-> op, target |-> target, ok |-> ok, text |-> text, index |-> index,
     record |-> record]

\* -------------------------------------------------------------------- Init
NoEvent == Event("null", {}, "", NoBody, FALSE, NoContext, NoRecords, NoneValue)

Init ==
    /\ pc = "idle"
    /\ env \in Environments
    /\ event = NoEvent
    /\ handler = "none"
    /\ request_data = NoneValue
    /\ validation_result = NoValidation
    /\ user_id = NoId
    /\ i = 0
    /\ retry_count = 0
    /\ translations = <<>>
    /\ successful_count = 0
    /\ failed_count = 0
    /\ total_characters = 0
    /\ errors = <<>>
    /\ translation_result = NoResult
    /\ rec = 0
    /\ processed_files = <<>>
    /\ log = <<>>
    /\ response = NoResponse

\* the response is returned and the invocation is over
Finish(outcome) ==
    /\ pc' = "done"
    /\ response' = LambdaHandlerExcept(outcome)

\* ------------------------------------------------------------------ router
\* mutant: the HTTP markers are tested before the storage marker
RouteHttpFirst(ev) ==
    IF "httpMethod" \in ev.keys \/ "requestContext" \in ev.keys THEN "http"
    ELSE IF "Records" \in ev.keys THEN "s3"
    ELSE "direct"

\* the if/elif/else of lambda_handler over a mapping, list or str
Route(ev) ==
    IF "Records" \in ev.keys THEN "s3"
    ELSE IF "httpMethod" \in ev.keys \/ "requestContext" \in ev.keys THEN "http"
    ELSE "direct"

\* 'Records' in event raises TypeError on a value that is no container
MembershipRaises(ev) == ev.t \in {"num", "null"}

LambdaHandler ==
    /\ pc = "idle"
    /\ \E ev \in Events :
        /\ event' = ev
        /\ IF MembershipRaises(ev)
           THEN /\ Finish(Raise("TypeError"))
                /\ UNCHANGED << handler, log >>
           ELSE /\ pc' = Route(ev)
                /\ handler' = Route(ev)
                /\ log' = Append(log, LogEntry("handler", Route(ev), TRUE, NullText, 0, 0))
                /\ UNCHANGED response
    /\ UNCHANGED << env, request_data, validation_result, user_id, loopVars,
                    translation_result, rec, processed_files >>

\* ------------------------------------------------------ perform_translation
\* mutant: only the empty string is skipped
IsBlankEmptyOnly(text) == text.chars = <<>>

\* not text or not text.strip()
IsBlank(text) == text.chars = <<>> \/ Strip(text.chars) = <<>>

\* the TranslatedText the service returns for the text it was sent
TranslatedText(sent) == [t |-> "str", chars |-> <<"t">> \o sent]

\* the loop is entered with empty accumulators
StartTranslation ==
    /\ i' = 0
    /\ retry_count' = 0
    /\ translations' = <<>>
    /\ successful_count' = 0
    /\ failed_count' = 0
    /\ total_characters' = 0
    /\ errors' = <<>>
    /\ pc' = "translate"

\* the item is recorded and the loop moves to the next one
NextItem(entry) ==
    /\ translations' = Append(translations, entry)
    /\ i' = i + 1
    /\ retry_count' = 0

\* mutant: the HTTP handler goes from the translation to the response save
AfterTranslationSkipsTables(h) ==
    IF h = "direct" THEN "direct_return"
    ELSE IF h = "http" THEN "save_response"
    ELSE "metadata"

\* where each handler continues after perform_translation
AfterTranslation(h) == IF h = "direct" THEN "direct_return" ELSE "metadata"

\* mutant: one attempt more is made before the failure is raised
RetriesExhaustedOffByOne(count) == count > max_retries

\* if retry_count >= max_retries: raise translate_error
RetriesExhausted(count) == count >= max_retries

\* mutant: the per-item try block is missing
ItemTryRaisesAlways(raised) == raised

\* the except clause of the per-item try block: does the failure of an
\* item leave the block?
ItemTryRaises(raised) == FALSE

\* the structure returned by the except clause of perform_translation
CriticalResult(rd, uid) ==
    [request_metadata |->
        [source_language |-> rd.source_language,
         target_language |-> rd.target_language,
         total_texts |-> Len(rd.texts.items),
         successful_translations |-> 0,
         failed_translations |-> Len(rd.texts.items),
         skipped_translations |-> 0,
         user_id |-> uid],
     translations |-> [k \in 1..Len(rd.texts.items) |->
        ItemResult(rd.texts.items[k], NullText, k - 1, "error",
                   "Translation service error")],
     summary |-> [success_rate |-> 0, total_characters_translated |-> 0,
                  average_characters_per_translation |-> 0],
     errors |-> <<0>>]

\* the item failed: it is recorded as an error and the loop goes on, unless
\* the failure leaves the per-item try block and ends perform_translation
ItemFailed(text, reason, errs) ==
    IF ItemTryRaises(TRUE)
    THEN /\ translation_result' = CriticalResult(request_data, user_id)
         /\ pc' = AfterTranslation(handler)
         /\ UNCHANGED << i, retry_count, translations, successful_count,
                         failed_count, total_characters, errors >>
    ELSE /\ NextItem(ItemResult(text, NullText, i, "error", reason))
         /\ failed_count' = failed_count + 1
         /\ errors' = errs
         /\ UNCHANGED << pc, translation_result, successful_count, total_characters >>

\* one pass of the for loop body, or one attempt of the retry loop
PerformTranslationStep ==
    /\ pc = "translate"
    /\ i < Len(request_data.texts.items)
    /\ LET text == request_data.texts.items[i + 1] IN
       IF IsBlank(text)
       THEN /\ NextItem(ItemResult(text, [t |-> "str", chars |-> <<>>], i, "skipped",
                                   "empty_text"))
            /\ UNCHANGED << pc, translation_result, successful_count, failed_count,
                            total_characters, errors, log >>
       ELSE IF EncodeRaises(text.chars)
       THEN /\ ItemFailed(text, "UnicodeEncodeError", Append(errors, i + 1))
            /\ UNCHANGED log
       ELSE IF Utf8Len(text.chars) > MAX_TEXT_BYTES
       THEN /\ NextItem(ItemResult(text, NullText, i, "error", "Text too long"))
            /\ failed_count' = failed_count + 1
            /\ UNCHANGED << pc, translation_result, successful_count,
                            total_characters, errors, log >>
       ELSE \E ok \in BOOLEAN :
            /\ log' = Append(log, LogEntry("translate_text", "translate", ok,
                                           StrItem(Strip(text.chars)), i, rec))
            /\ IF ok
               THEN /\ NextItem(ItemResult(text, TranslatedText(Strip(text.chars)), i,
                                           "success", ""))
                    /\ successful_count' = successful_count + 1
                    /\ total_characters' = total_characters
                            + StrLen(TranslatedText(Strip(text.chars)).chars)
                    /\ UNCHANGED << pc, translation_result, failed_count, errors >>
               ELSE IF RetriesExhausted(retry_count + 1)
               THEN ItemFailed(text, "translate_error", Append(errors, i + 1))
               ELSE /\ retry_count' = retry_count + 1
                    /\ UNCHANGED << pc, translation_result, i, translations,
                                    successful_count, failed_count,
                                    total_characters, errors >>
    /\ UNCHANGED << env, event, handler, request_data, validation_result,
                    user_id, rec, processed_files, response >>

\* mutant: the rate is taken over the items that were sent for translation
TranslationResultOverAttempted(rd, uid, ts, successful, failed, chars, errs) ==
    [request_metadata |->
        [source_language |-> rd.source_language,
         target_language |-> rd.target_language,
         total_texts |-> Len(rd.texts.items),
         successful_translations |-> successful,
         failed_translations |-> failed,
         skipped_translations |-> CountStatus(ts, "skipped"),
         user_id |-> uid],
     translations |-> ts,
     summary |-> [success_rate |-> SuccessRate(successful, successful + failed),
                  total_characters_translated |-> chars,
                  average_characters_per_translation |-> AverageChars(chars, successful)],
     errors |-> errs]

\* the result structure built after the loop
TranslationResult(rd, uid, ts, successful, failed, chars, errs) ==
    [request_metadata |->
        [source_language |-> rd.source_language,
         target_language |-> rd.target_language,
         total_texts |-> Len(rd.texts.items),
         successful_translations |-> successful,
         failed_translations |-> failed,
         skipped_translations |-> CountStatus(ts, "skipped"),
         user_id |-> uid],
     translations |-> ts,
     summary |-> [success_rate |-> SuccessRate(successful, Len(rd.texts.items)),
                  total_characters_translated |-> chars,
                  average_characters_per_translation |-> AverageChars(chars, successful)],
     errors |-> errs]

PerformTranslationReturn ==
    /\ pc = "translate"
    /\ i = Len(request_data.texts.items)
    /\ translation_result' = TranslationResult(request_data, user_id, translations,
            successful_count, failed_count, total_characters, errors)
    /\ pc' = AfterTranslation(handler)
    /\ UNCHANGED << env, event, handler, request_data, validation_result, user_id,
                    loopVars, rec, processed_files, log, response >>

\* ------------------------------------------------- handle_direct_invocation
\* the event itself, read as a request mapping
AsRequest(ev) ==
    Request(ev.t, ev.keys, ev.source_language, ev.target_language, ev.texts)

HandleDirectInvocation ==
    /\ pc = "direct"
    /\ request_data' = AsRequest(event)
    /\ validation_result' = validate_translation_request(AsRequest(event))
    /\ IF ValidationFailed(validation_result')
       THEN /\ Finish(HandleDirectExcept(Return(400,
                    ResponseBody({"error", "message"},
                        Message("", validation_result'.error), NoResult, <<>>))))
            /\ UNCHANGED << user_id, loopVars >>
       ELSE /\ user_id' = <<"direct">>
            /\ StartTranslation
            /\ UNCHANGED response
    /\ log' = Append(log, LogEntry("validate", "", validation_result'.valid, NullText, 0, 0))
    /\ UNCHANGED << env, event, handler, translation_result, rec, processed_files >>

HandleDirectInvocationReturn ==
    /\ pc = "direct_return"
    /\ Finish(HandleDirectExcept(Return(200,
            ResponseBody({"message", "translation_result"},
                Message("Translation completed successfully", NoError),
                translation_result, <<>>))))
    /\ UNCHANGED << env, event, handler, request_data, validation_result, user_id,
                    loopVars, translation_result, rec, processed_files, log >>

\* ------------------------------------------------------- parse_request_body
\* json.loads(body) followed by len(parsed_body): the len of a number, a
\* bool or null raises TypeError, which the function turns into None
JsonLoads(value) == IF value.t \in {"num", "null"} THEN NoneValue ELSE value

parse_request_body(ev) ==
    LET body == IF "body" \in ev.keys THEN ev.body ELSE NoBody IN
    IF body.kind \in {"absent", "empty"} THEN NoneValue
    ELSE IF body.kind = "object" /\ ~Truthy(body.value) THEN NoneValue
    ELSE IF ev.isBase64Encoded
         THEN IF body.kind = "b64json" THEN JsonLoads(body.value) ELSE NoneValue
    ELSE IF body.kind = "json" THEN JsonLoads(body.value)
    ELSE IF body.kind = "object" THEN body.value
    ELSE NoneValue

\* ---------------------------------------------------------- extract_user_id
\* a or b of two optional values
Either(a, b) == IF a # NoId THEN a ELSE b

extract_user_id(ev) ==
    LET ctx == IF "requestContext" \in ev.keys THEN ev.requestContext ELSE EmptyContext IN
    IF ctx.t # "dict" THEN ANONYMOUS
    ELSE IF ctx.claims # <<>> /\ Either(ctx.claims[1], ctx.claims[2]) # NoId
         THEN Either(ctx.claims[1], ctx.claims[2])
    ELSE IF ctx.lambda # <<>> /\ Either(ctx.lambda[1], ctx.lambda[2]) # NoId
         THEN Either(ctx.lambda[1], ctx.lambda[2])
    ELSE IF ctx.principalId # NoPrincipal THEN ctx.principalId
    ELSE IF ctx.userArn # NoId THEN ctx.userArn
    ELSE IF ctx.sourceIp # NoId THEN <<"ip-">> \o ctx.sourceIp
    ELSE ANONYMOUS

\* ------------------------------------------------ handle_api_gateway_event
\* event.get(key): None when the key is absent
HttpMethod(ev) == IF "httpMethod" \in ev.keys THEN ev.httpMethod ELSE ""

\* mutant: the preflight test is made after the body was found missing
IsPreflightWithoutBody(ev) ==
    HttpMethod(ev) = "OPTIONS" /\ ("body" \notin ev.keys \/ ev.body.kind = "absent")

\* event.get('httpMethod') == 'OPTIONS'
IsPreflight(ev) == HttpMethod(ev) = "OPTIONS"

PreflightBody ==
    ResponseBody({"message", "supported_methods", "supported_headers"},
                 Message("CORS preflight successful", NoError), NoResult, <<>>)

BodyRequiredBody ==
    ResponseBody({"error", "message", "example"},
                 Message("Request body is required and must be valid JSON", NoError),
                 NoResult, <<>>)

\* mutant: a fixed message replaces the validator's reason
ValidationFailedBodyGeneric(reason) ==
    [fields |-> {"error", "message", "request_id"},
     message |-> [text |-> "Invalid request", reason |-> NoError],
     result |-> NoResult, files |-> <<>>]

ValidationFailedBody(reason) ==
    ResponseBody({"error", "message", "request_id"}, Message("", reason), NoResult, <<>>)

\* the handler up to the end of validation
HandleApiGatewayEvent ==
    /\ pc = "http"
    /\ IF event.t # "dict"
       THEN /\ Finish(HandleApiGatewayExcept(Raise("AttributeError")))
            /\ UNCHANGED << request_data, validation_result, user_id, log >>
       ELSE IF IsPreflight(event)
       THEN /\ Finish(HandleApiGatewayExcept(Return(200, PreflightBody)))
            /\ UNCHANGED << request_data, validation_result, user_id, log >>
       ELSE LET parsed == parse_request_body(event)
                checked == validate_translation_request(parsed)
                parseLog == Append(log, LogEntry("parse_request_body", "", TRUE, NullText, 0, 0))
            IN
            /\ request_data' = parsed
            /\ IF ~Truthy(parsed)
               THEN /\ Finish(HandleApiGatewayExcept(Return(400, BodyRequiredBody)))
                    /\ log' = parseLog
                    /\ UNCHANGED << validation_result, user_id >>
               ELSE /\ validation_result' = checked
                    /\ log' = Append(parseLog,
                                LogEntry("validate", "", checked.valid, NullText, 0, 0))
                    /\ IF ValidationFailed(checked)
                       THEN /\ Finish(HandleApiGatewayExcept(
                                    Return(400, ValidationFailedBody(checked.error))))
                            /\ UNCHANGED user_id
                       ELSE /\ user_id' = extract_user_id(event)
                            /\ pc' = "save_request"
                            /\ UNCHANGED response
    /\ UNCHANGED << env, event, handler, loopVars, translation_result, rec,
                    processed_files >>

\* ----------------------------------------------------- persistence adapters
\* save_request_to_s3 and save_translation_result log the failure of
\* put_object and raise it again
SaveRequestToS3Raises(ok) == ~ok
SaveTranslationResultRaises(ok) == ~ok

\* mutant: save_translation_metadata raises its failure again, as the two
\* storage adapters do
SaveTranslationMetadataReraises(ok) == ~ok

\* save_translation_metadata and save_user_translation_history log the
\* failure of put_item and return
SaveTranslationMetadataRaises(ok) == FALSE
SaveUserTranslationHistoryRaises(ok) == FALSE

\* mutant: the request save is not wrapped in a try block
RequestSaveTryPropagates(raised) == raised

\* the three try blocks of handle_api_gateway_event around the saves: does
\* an exception raised inside leave the block?
RequestSaveTryRaises(raised) == FALSE
MetadataTryRaises(raised) == FALSE
ResponseSaveTryRaises(raised) == FALSE

\* mutant: the put is issued without the test of the configuration
PutAlways(op, target, configured, ok) ==
    Append(log, LogEntry(op, target, ok, NullText, 0, rec))

\* the put is issued only when its bucket or table is configured
Put(op, target, configured, ok) ==
    IF configured THEN Append(log, LogEntry(op, target, ok, NullText, 0, rec)) ELSE log

\* did the call fail? an adapter that is not configured returns at once
Failed(configured, ok) == configured /\ ~ok

SaveRequestToS3 ==
    /\ pc = "save_request"
    /\ \E ok \in BOOLEAN :
        LET configured == env.REQUEST_BUCKET # ""
            raised == SaveRequestToS3Raises(~Failed(configured, ok))
        IN
        /\ configured \/ ok
        /\ log' = Put("put_object", "request_bucket", configured, ok)
        /\ IF RequestSaveTryRaises(raised)
           THEN /\ Finish(HandleApiGatewayExcept(Raise("ClientError")))
                /\ UNCHANGED loopVars
           ELSE /\ StartTranslation
                /\ UNCHANGED response
    /\ UNCHANGED << env, event, handler, request_data, validation_result, user_id,
                    translation_result, rec, processed_files >>

\* the try block of process_s3_file around the two table writes
FileMetadataTryRaises(raised) == FALSE

\* one entry of processed_files
FileResult(key, status, error_type, result) ==
    [original_file |-> key, status |-> status, error_type |-> error_type,
     translations_count |-> Len(result.translations),
     successful_translations |-> result.request_metadata.successful_translations]

\* the except clause of process_s3_file: the failure becomes the file's entry
ProcessS3FileExcept(key, exc) == FileResult(key, "error", exc, NoResult)

\* mutant: process_s3_file has no except clause
ProcessS3FilePropagates(raised) == raised

\* the try block that is the whole body of process_s3_file: does an
\* exception raised inside leave the function?
ProcessS3FileRaises(raised) == FALSE

\* an exception raised inside process_s3_file: the function returns the
\* file's error entry and the loop of handle_s3_event goes on; an exception
\* that left the function would end the loop
ProcessS3FileFails(key, exc) ==
    IF ProcessS3FileRaises(TRUE)
    THEN /\ Finish(HandleS3Except(Raise(exc)))
         /\ UNCHANGED processed_files
    ELSE /\ processed_files' = Append(processed_files, ProcessS3FileExcept(key, exc))
         /\ pc' = "s3"
         /\ UNCHANGED response

\* urllib.parse.unquote_plus, on the tokens of the pool: '+' is a space
UnquotePlus(key) == [k \in 1..Len(key) |-> IF key[k] = "+" THEN " " ELSE key[k]]

\* the key of the record being processed
CurrentKey == UnquotePlus(event.Records.items[rec].key)

\* an exception raised inside one of the try blocks around the table
\* writes: it ends the HTTP request, or the processing of the file
MetadataTryFails ==
    IF handler = "http"
    THEN /\ Finish(HandleApiGatewayExcept(Raise("ClientError")))
         /\ UNCHANGED processed_files
    ELSE ProcessS3FileFails(CurrentKey, "ClientError")

TableTryRaises(raised) ==
    IF handler = "http" THEN MetadataTryRaises(raised) ELSE FileMetadataTryRaises(raised)

\* save_translation_metadata, called by both handlers inside a try block
SaveTranslationMetadata ==
    /\ pc = "metadata"
    /\ \E ok \in BOOLEAN :
        LET configured == env.TRANSLATION_TABLE # ""
            raised == SaveTranslationMetadataRaises(~Failed(configured, ok))
        IN
        /\ configured \/ ok
        /\ log' = Put("put_item", "translation_table", configured, ok)
        /\ IF TableTryRaises(raised)
           THEN MetadataTryFails
           ELSE /\ pc' = IF ~raised /\ user_id # ANONYMOUS THEN "history"
                          ELSE IF handler = "http" THEN "save_response"
                          ELSE "s3_result"
                /\ UNCHANGED << response, processed_files >>
    /\ UNCHANGED << env, event, handler, request_data, validation_result, user_id,
                    loopVars, translation_result, rec >>

\* save_user_translation_history, called in the same try block
SaveUserTranslationHistory ==
    /\ pc = "history"
    /\ \E ok \in BOOLEAN :
        LET configured == env.USER_DATA_TABLE # ""
            raised == SaveUserTranslationHistoryRaises(~Failed(configured, ok))
        IN
        /\ configured \/ ok
        /\ log' = Put("put_item", "user_data_table", configured, ok)
        /\ IF TableTryRaises(raised)
           THEN MetadataTryFails
           ELSE /\ pc' = IF handler = "http" THEN "save_response" ELSE "s3_result"
                /\ UNCHANGED << response, processed_files >>
    /\ UNCHANGED << env, event, handler, request_data, validation_result, user_id,
                    loopVars, translation_result, rec >>

ResultBody(result) ==
    ResponseBody({"request_metadata", "translations", "summary", "errors",
                  "processing_metrics"},
                 Message("", NoError), result, <<>>)

\* save_translation_result and the return of handle_api_gateway_event
SaveTranslationResult ==
    /\ pc = "save_response"
    /\ \E ok \in BOOLEAN :
        LET configured == env.RESPONSE_BUCKET # ""
            raised == SaveTranslationResultRaises(~Failed(configured, ok))
        IN
        /\ configured \/ ok
        /\ log' = Put("put_object", "response_bucket", configured, ok)
        /\ IF ResponseSaveTryRaises(raised)
           THEN Finish(HandleApiGatewayExcept(Raise("ClientError")))
           ELSE Finish(HandleApiGatewayExcept(Return(200, ResultBody(translation_result))))
    /\ UNCHANGED << env, event, handler, request_data, validation_result, user_id,
                    loopVars, translation_result, rec, processed_files >>

\* ---------------------------------------------------------- handle_s3_event
\* key.lower().endswith('.json'), on the tokens of the pool
Lower(token) == IF token = ".JSON" THEN ".json" ELSE token
EndsWithJson(key) == key # <<>> /\ Lower(key[Len(key)]) = ".json"

\* mutant: the bucket of the record is not tested
EligibleAnyBucket(record) == EndsWithJson(UnquotePlus(record.key))

\* the two tests of the loop body that let a record through
Eligible(record) ==
    /\ record.bucket = env.REQUEST_BUCKET
    /\ EndsWithJson(UnquotePlus(record.key))

\* event['Records'] raises on a str, the for loop on a number
RecordsRaise(ev) == ev.t # "dict" \/ ev.Records.t # "list"

S3Body(files) ==
    ResponseBody({"message", "processed_files", "total_files"},
                 Message("S3 files processed successfully", NoError), NoResult, files)

\* the loop over the records, up to the next record that is processed
HandleS3Event ==
    /\ pc = "s3"
    /\ IF RecordsRaise(event)
       THEN /\ Finish(HandleS3Except(Raise("TypeError")))
            /\ UNCHANGED rec
       ELSE IF rec = Len(event.Records.items)
       THEN /\ Finish(HandleS3Except(Return(200, S3Body(processed_files))))
            /\ UNCHANGED rec
       ELSE IF ~event.Records.items[rec + 1].wellformed
       THEN /\ Finish(HandleS3Except(Raise("KeyError")))
            /\ UNCHANGED rec
       ELSE /\ ~Eligible(event.Records.items[rec + 1])
            /\ rec' = rec + 1
            /\ UNCHANGED << pc, response >>
    /\ UNCHANGED << env, event, handler, request_data, validation_result, user_id,
                    loopVars, translation_result, processed_files, log >>

\* ---------------------------------------------------------- process_s3_file
\* the object get_object returns for a key
\*   "missing"  get_object raises      "garbage"  the body is not JSON
\*   "json"     the body is the JSON text of data, or, when wrapped, of
\*              {'request_data': data, 'metadata': {'user_id': file_user}}
\* object_user is the 'user-id' entry of the object's metadata
File(kind, wrapped, data, file_user, object_user) ==
    [kind |-> kind, wrapped |-> wrapped, data |-> data, file_user |-> file_user,
     object_user |-> object_user]

FilePool ==
    { File("missing", FALSE, NoneValue, NoId, NoId),
      File("garbage", FALSE, NoneValue, NoId, NoId),
      File("json", FALSE, OtherValue("num", {"other"}), NoId, NoId),
      File("json", FALSE, ARequest(<<StrItem(<<"sp">>)>>), NoId, NoId),
      File("json", TRUE, ARequest(<<StrItem(<<"a">>)>>), <<"u1">>, NoId),
      File("json", TRUE, ARequest(<<NumItem>>), NoId, <<"u2">>) }

\* .get(key, 'anonymous')
OrAnonymous(id) == IF id = NoId THEN ANONYMOUS ELSE id

\* the name context is not bound in process_s3_file nor in the module:
\* evaluating it raises NameError
ContextIsBound == FALSE

\* an eligible record: the file is fetched, parsed and validated
ProcessS3File ==
    /\ pc = "s3"
    /\ ~RecordsRaise(event)
    /\ rec < Len(event.Records.items)
    /\ event.Records.items[rec + 1].wellformed
    /\ Eligible(event.Records.items[rec + 1])
    /\ rec' = rec + 1
    /\ \E file \in FilePool :
        LET key == UnquotePlus(event.Records.items[rec + 1].key)
            got == Append(log, LogEntry("get_object", "request_bucket",
                                        file.kind # "missing", NullText, 0, rec + 1))
            checked == validate_translation_request(file.data)
            fails(exc) ==
                /\ ProcessS3FileFails(key, exc)
                /\ UNCHANGED << request_data, validation_result, user_id, loopVars >>
        IN
        IF file.kind = "missing" THEN log' = got /\ fails("ClientError")
        ELSE IF file.kind = "garbage" THEN log' = got /\ fails("JSONDecodeError")
        ELSE IF file.data.t \in {"num", "null"} THEN log' = got /\ fails("TypeError")
        ELSE /\ log' = Append(got, LogEntry("validate", "", checked.valid, NullText, 0, rec + 1))
             /\ IF ValidationFailed(checked)
                THEN /\ ProcessS3FileFails(key, "ValueError")
                     /\ request_data' = file.data
                     /\ validation_result' = checked
                     /\ UNCHANGED << user_id, loopVars >>
                ELSE /\ request_data' = file.data
                     /\ validation_result' = checked
                     /\ user_id' = IF file.wrapped THEN OrAnonymous(file.file_user)
                                    ELSE OrAnonymous(file.object_user)
                     /\ StartTranslation
                     /\ UNCHANGED << processed_files, response >>
    /\ UNCHANGED << env, event, handler, translation_result >>

\* the rest of process_s3_file after the table writes: complete_result is
\* built, the result is saved and the file's entry returned
ProcessS3FileResult ==
    /\ pc = "s3_result"
    /\ IF ~ContextIsBound
       THEN /\ ProcessS3FileFails(CurrentKey, "NameError")
            /\ UNCHANGED log
       ELSE \E ok \in BOOLEAN :
            LET configured == env.RESPONSE_BUCKET # ""
                raised == SaveTranslationResultRaises(~Failed(configured, ok))
            IN
            /\ configured \/ ok
            /\ log' = Put("put_object", "response_bucket", configured, ok)
            /\ IF raised
               THEN ProcessS3FileFails(CurrentKey, "ClientError")
               ELSE /\ processed_files' = Append(processed_files,
                            FileResult(CurrentKey, "success", "", translation_result))
                    /\ pc' = "s3"
                    /\ UNCHANGED response
    /\ UNCHANGED << env, event, handler, request_data, validation_result, user_id,
                    loopVars, translation_result, rec >>

Next ==
    \/ LambdaHandler
    \/ HandleS3Event
    \/ ProcessS3File
    \/ ProcessS3FileResult
    \/ HandleApiGatewayEvent
    \/ SaveRequestToS3
    \/ SaveTranslationMetadata
    \/ SaveUserTranslationHistory
    \/ SaveTranslationResult
    \/ PerformTranslationStep
    \/ PerformTranslationReturn
    \/ HandleDirectInvocation
    \/ HandleDirectInvocationReturn

Spec == Init /\ [][Next]_vars

\* ================================================================== claims
\* perform_translation has returned for request_data
Returned ==
    \/ pc \in {"metadata", "history", "save_response", "s3_result", "direct_return"}
    \/ pc = "done" /\ handler \in {"http", "direct"} /\ validation_result.valid

Items == request_data.texts.items

\* the positions in the log of the translate calls made for item k (1-based)
\* of the request being handled
CallsFor(k) ==
    { j \in 1..Len(log) : /\ log[j].op = "translate_text"
                          /\ log[j].index = k - 1
                          /\ log[j].record = rec }

\* the text is empty or holds white space only
AllSpaces(text) == \A j \in 1..Len(text.chars) : text.chars[j] = "sp"

Effects == {"translate_text", "put_object", "put_item"}

\* C1: a request that fails validation causes no call of the translation API
\* and no storage or table write for that request, on every trigger path.
C1_NoEffectAfterFailedValidation ==
    /\ \A j \in 1..Len(log) :
          (log[j].op = "validate" /\ ~log[j].ok) =>
              \A m \in 1..Len(log) :
                  log[m].record = log[j].record => log[m].op \notin Effects
    /\ (handler \in {"http", "direct"}
            /\ ~validate_translation_request(request_data).valid)
          => \A m \in 1..Len(log) : log[m].op \notin Effects

\* a storage notification with one file that failed validation and one
\* that was translated
C1_Witness ==
    /\ pc = "done"
    /\ handler = "s3"
    /\ \E j \in 1..Len(log) : log[j].op = "validate" /\ ~log[j].ok
    /\ \E j \in 1..Len(log) : log[j].op = "translate_text"

\* C2: the result of perform_translation has one entry per text, total_texts
\* is the number of texts and successful + failed + skipped equals it.
C2_CountsAddUp ==
    Returned =>
        LET meta == translation_result.request_metadata IN
        /\ Len(translation_result.translations) = Len(Items)
        /\ meta.total_texts = Len(Items)
        /\ meta.successful_translations + meta.failed_translations
                + meta.skipped_translations = Len(Items)

C2_Witness ==
    /\ Returned
    /\ translation_result.request_metadata.failed_translations = 1
    /\ translation_result.request_metadata.skipped_translations = 1

\* C3: entry k of translations carries index k and the untrimmed input text
\* k, whatever the outcome of each item.
C3_OrderPreserved ==
    Returned =>
        /\ Len(translation_result.translations) = Len(Items)
        /\ \A k \in 1..Len(Items) :
              /\ translation_result.translations[k].index = k - 1
              /\ translation_result.translations[k].original_text = Items[k]

C3_Witness ==
    /\ Returned
    /\ Len(Items) = 2
    /\ Items[2] = StrItem(<<"sp", "a", "sp">>)
    /\ translation_result.translations[1].status = "error"
    /\ translation_result.translations[2].status = "success"

\* C4: an item whose translate calls all fail is recorded with status error
\* and a null translated_text, every non-blank item is still sent to the
\* translation API, and the HTTP response stays 200.
C4_ItemFailureNotFatal ==
    /\ Returned =>
          \A k \in 1..Len(Items) :
              ~AllSpaces(Items[k]) =>
                  /\ CallsFor(k) # {}
                  /\ (\A j \in CallsFor(k) : ~log[j].ok) =>
                        /\ translation_result.translations[k].status = "error"
                        /\ translation_result.translations[k].translated_text = NullText
    /\ (pc = "done" /\ handler = "http" /\ validation_result.valid) =>
          response.statusCode = 200

C4_Witness ==
    /\ pc = "done"
    /\ handler = "http"
    /\ validation_result.valid
    /\ Len(Items) = 2
    /\ translation_result.translations[1].status = "error"
    /\ translation_result.translations[2].status = "success"
    /\ response.statusCode = 200

\* the outcome of item k as the request and the translate calls decide it
OutcomeOf(k) ==
    IF AllSpaces(Items[k]) THEN "skipped"
    ELSE IF \E j \in CallsFor(k) : log[j].ok THEN "success"
    ELSE "error"

HowMany(status) == Cardinality({ k \in 1..Len(Items) : OutcomeOf(k) = status })

\* C5: on the HTTP path the status is 200 and the translation content of the
\* body is decided by the request and the translate outcomes alone, so no
\* failure of a persistence write changes it.
C5_PersistenceFailuresInvisible ==
    (pc = "done" /\ handler = "http" /\ validation_result.valid) =>
        LET result == response.body.result IN
        /\ response.statusCode = 200
        /\ Len(result.translations) = Len(Items)
        /\ \A k \in 1..Len(Items) :
              /\ result.translations[k].status = OutcomeOf(k)
              /\ result.translations[k].original_text = Items[k]
              /\ result.translations[k].index = k - 1
        /\ result.request_metadata.total_texts = Len(Items)
        /\ result.request_metadata.successful_translations = HowMany("success")
        /\ result.request_metadata.failed_translations = HowMany("error")
        /\ result.request_metadata.skipped_translations = HowMany("skipped")
        /\ result.summary.success_rate = SuccessRate(HowMany("success"), Len(Items))

FailedPut(target) ==
    \E j \in 1..Len(log) :
        log[j].op \in {"put_object", "put_item"} /\ log[j].target = target /\ ~log[j].ok

\* all four writes failed and one text was translated
C5_Witness ==
    /\ pc = "done"
    /\ handler = "http"
    /\ response.statusCode = 200
    /\ response.body.result.request_metadata.successful_translations = 1
    /\ FailedPut("request_bucket")
    /\ FailedPut("translation_table")
    /\ FailedPut("user_data_table")
    /\ FailedPut("response_bucket")

\* C6: lambda_handler always returns a response with a status code; no
\* exception leaves it.
C6_NoExceptionEscapes ==
    /\ pc = "done" => response.kind = "return" /\ response.statusCode \in {200, 400, 500}
    /\ pc # "done" => response = NoResponse

\* a storage notification with a malformed record after a translated file
C6_Witness ==
    /\ pc = "done"
    /\ handler = "s3"
    /\ response.statusCode = 500
    /\ \E j \in 1..Len(log) : log[j].op = "translate_text" /\ ~log[j].ok

\* the checks of the validator before the items, in their order
C7_Checks(rd) ==
    << [code |-> "not_object", field |-> "", pass |-> rd.t = "dict" /\ rd.keys # {}],
       [code |-> "missing", field |-> "source_language",
        pass |-> "source_language" \in rd.keys],
       [code |-> "missing", field |-> "target_language",
        pass |-> "target_language" \in rd.keys],
       [code |-> "missing", field |-> "texts", pass |-> "texts" \in rd.keys],
       [code |-> "bad_source", field |-> "",
        pass |-> rd.source_language.t = "str"
                    /\ rd.source_language.code \in SUPPORTED_LANGUAGES],
       [code |-> "bad_target", field |-> "",
        pass |-> rd.target_language.t = "str"
                    /\ rd.target_language.code \in SUPPORTED_LANGUAGES],
       [code |-> "texts_not_list", field |-> "", pass |-> rd.texts.t = "list"],
       [code |-> "texts_empty", field |-> "", pass |-> rd.texts.items # <<>>],
       [code |-> "too_many", field |-> "", pass |-> Len(rd.texts.items) <= 100] >>

\* the item is a string of at most 5000 UTF-8 bytes
C7_ItemPasses(text) ==
    /\ text.t = "str"
    /\ \A j \in 1..Len(text.chars) : text.chars[j] # "sur"
    /\ Utf8Len(text.chars) <= 5000

C7_Failing(rd) == { k \in 1..Len(C7_Checks(rd)) : ~C7_Checks(rd)[k].pass }
C7_FailingItems(rd) == { k \in 1..Len(rd.texts.items) : ~C7_ItemPasses(rd.texts.items[k]) }
Min(S) == CHOOSE x \in S : \A y \in S : x <= y

\* C7: the validator accepts exactly when every check passes and otherwise
\* reports the first failing check of the fixed order, and only that one.
C7_FirstFailureWins ==
    validation_result # NoValidation =>
        LET rd == request_data
            error == validation_result.error
        IN
        IF C7_Failing(rd) # {}
        THEN /\ ~validation_result.valid
             /\ error.code = C7_Checks(rd)[Min(C7_Failing(rd))].code
             /\ error.field = C7_Checks(rd)[Min(C7_Failing(rd))].field
        ELSE IF C7_FailingItems(rd) # {}
        THEN /\ ~validation_result.valid
             /\ error.code \in {"item_not_string", "item_too_long", "exception"}
             /\ error.code = "item_not_string"
                    <=> rd.texts.items[Min(C7_FailingItems(rd))].t # "str"
             /\ error.code = "exception"
                    <=> \E j \in 1..Len(rd.texts.items[Min(C7_FailingItems(rd))].chars) :
                            rd.texts.items[Min(C7_FailingItems(rd))].chars[j] = "sur"
             /\ error.code # "exception" => error.index = Min(C7_FailingItems(rd)) - 1
             /\ error.code = "item_too_long" => error.n > 5000
        ELSE validation_result = [valid |-> TRUE, error |-> NoError]

\* a request with an unsupported source, an unsupported target and texts
\* that is no list
C7_Witness ==
    /\ validation_result.error.code = "bad_source"
    /\ request_data.target_language = StrLang("xx")
    /\ request_data.texts = StrTexts

\* the JSON value the body of the event holds, when it is well-formed
C8_BodyParses(ev) ==
    /\ "body" \in ev.keys
    /\ \/ ev.body.kind = "json" /\ ~ev.isBase64Encoded
       \/ ev.body.kind = "b64json" /\ ev.isBase64Encoded
       \/ ev.body.kind = "object" /\ ~ev.isBase64Encoded

C8_HttpPost ==
    pc = "done" /\ handler = "http" /\ event.t = "dict" /\ HttpMethod(event) = "POST"

C8_StatusIs400 ==
    /\ (C8_HttpPost
            /\ (~C8_BodyParses(event)
                   \/ ~validate_translation_request(event.body.value).valid))
          => response.statusCode = 400
    /\ (pc = "done" /\ handler = "direct"
            /\ ~validate_translation_request(AsRequest(event)).valid)
          => /\ response.statusCode = 400
             /\ response.body.message.reason
                    = validate_translation_request(AsRequest(event)).error

\* C8 as claimed: a client error gets status 400, and the message of every
\* HTTP request that fails validation is the validator's reason.
C8_Original ==
    /\ C8_StatusIs400
    /\ (C8_HttpPost /\ C8_BodyParses(event)
            /\ ~validate_translation_request(event.body.value).valid)
          => response.body.message.reason
                = validate_translation_request(event.body.value).error

\* the body parses to a value that is not empty and has a length
C8_NonEmptyContainer(v) == v.t \in {"dict", "list", "str"} /\ v.keys # {}

\* C8 (amended): a client error gets status 400; the message is the
\* validator's reason when the body parses to a non-empty object, array or
\* string, and the fixed body-required message when it parses to an empty
\* one or to a number, a boolean or null.
C8_ClientErrorsAre400 ==
    /\ C8_StatusIs400
    /\ (C8_HttpPost /\ C8_BodyParses(event)
            /\ ~validate_translation_request(event.body.value).valid)
          => IF C8_NonEmptyContainer(event.body.value)
             THEN response.body.message.reason
                    = validate_translation_request(event.body.value).error
             ELSE response.body.message
                    = Message("Request body is required and must be valid JSON", NoError)

C8_Witness ==
    /\ C8_HttpPost
    /\ C8_BodyParses(event)
    /\ response.statusCode = 400
    /\ response.body.message.reason.code = "item_too_long"
    /\ response.body.message.reason.n = 5001

\* C9: the translation API is called for an item exactly when the item is
\* not blank; a blank item is skipped with its text echoed back and counts
\* neither as successful nor as failed.
C9_BlankItemsSkipped ==
    Returned =>
        LET meta == translation_result.request_metadata
            blank == { k \in 1..Len(Items) : AllSpaces(Items[k]) }
        IN
        /\ \A k \in 1..Len(Items) : (CallsFor(k) # {}) <=> (k \notin blank)
        /\ \A k \in blank :
              /\ translation_result.translations[k].status = "skipped"
              /\ translation_result.translations[k].original_text = Items[k]
        /\ meta.successful_translations + meta.failed_translations
                = Len(Items) - Cardinality(blank)
        /\ meta.skipped_translations = Cardinality(blank)

\* a list of blank strings only, one of them white space
C9_Witness ==
    /\ Returned
    /\ Len(Items) = 2
    /\ Items[1] = StrItem(<<"sp">>)
    /\ Items[2] = StrItem(<<>>)
    /\ translation_result.request_metadata.successful_translations = 0
    /\ \A j \in 1..Len(log) : log[j].op # "translate_text"

\* C10: the router dispatches on Records first, then on httpMethod or
\* requestContext, else to the direct handler; one handler runs and the
\* router validates nothing.
C10_RouterPrecedence ==
    /\ (pc # "idle" /\ event.t \in {"dict", "list", "str"}) =>
          handler = IF "Records" \in event.keys THEN "s3"
                    ELSE IF {"httpMethod", "requestContext"} \cap event.keys # {}
                         THEN "http"
                    ELSE "direct"
    /\ Cardinality({ j \in 1..Len(log) : log[j].op = "handler" })
            = IF handler = "none" THEN 0 ELSE 1
    /\ pc \in {"http", "save_request", "save_response"} => handler = "http"
    /\ pc \in {"s3", "s3_result"} => handler = "s3"
    /\ pc \in {"direct", "direct_return"} => handler = "direct"
    /\ \A j \in 1..Len(log) :
          /\ log[j].op = "get_object" => handler = "s3"
          /\ log[j].op = "parse_request_body" => handler = "http"
          /\ log[j].op = "handler" => j = 1 /\ log[j].target = handler
    /\ Len(log) <= 1 => validation_result = NoValidation

\* an event with Records and httpMethod, handled by the storage handler
C10_Witness ==
    /\ pc = "done"
    /\ handler = "s3"
    /\ "httpMethod" \in event.keys
    /\ response.statusCode = 200
    /\ Len(processed_files) = 1

\* an HTTP event with method OPTIONS has been dispatched
C11_Preflight ==
    handler = "http" /\ event.t = "dict" /\ "httpMethod" \in event.keys
        /\ event.httpMethod = "OPTIONS"

\* C11: an HTTP event with method OPTIONS returns 200 with the fixed
\* preflight acknowledgement whatever its body, and the body is not parsed,
\* nothing is validated, translated or written.
C11_PreflightOnly ==
    C11_Preflight =>
        /\ \A j \in 1..Len(log) : log[j].op = "handler"
        /\ request_data = NoneValue
        /\ validation_result = NoValidation
        /\ translation_result = NoResult
        /\ pc \in {"http", "done"}
        /\ pc = "done" =>
              /\ response.statusCode = 200
              /\ response.body.fields
                    = {"message", "supported_methods", "supported_headers"}
              /\ response.body.message = Message("CORS preflight successful", NoError)

\* a preflight request that carries a valid translation request as its body
C11_Witness ==
    /\ C11_Preflight
    /\ pc = "done"
    /\ response.statusCode = 200
    /\ event.body.kind = "json"
    /\ validate_translation_request(event.body.value).valid

\* the records of the notification, and how many the loop has finished with
C12_Records == event.Records.items
C12_Finished == IF pc \in {"s3", "done"} THEN rec ELSE rec - 1

\* the record names the configured request bucket and its key ends in one
\* of the suffixes
C12_Targets(record, suffixes) ==
    /\ record.wellformed
    /\ record.bucket = env.REQUEST_BUCKET
    /\ record.key # <<>>
    /\ record.key[Len(record.key)] \in suffixes

\* every object read, translate call and write of the storage handler is
\* made for a record that targets the request bucket with such a key, and
\* processed_files holds one entry per such record and no other
C12_OnlyTargets(suffixes) ==
    handler = "s3" =>
        /\ \A j \in 1..Len(log) :
              log[j].op # "handler" =>
                  /\ log[j].record \in 1..Len(C12_Records)
                  /\ C12_Targets(C12_Records[log[j].record], suffixes)
        /\ Len(processed_files)
              = Cardinality({ r \in 1..C12_Finished :
                                C12_Targets(C12_Records[r], suffixes) })

\* C12 as claimed: a record is processed only if its bucket is the request
\* bucket and its key ends in .json; every other record causes no read, no
\* translate call, no write and no entry of processed_files.
C12_Original == C12_OnlyTargets({".json"})

\* C12 (amended): a record is processed only if its bucket is the request
\* bucket and its key ends in .json compared without regard to case, so a
\* key ending in .JSON is fetched too; every other record causes no read, no
\* translate call, no write and no entry of processed_files.
C12_OnlyRequestBucketJson ==
    /\ C12_OnlyTargets({".json", ".JSON"})
    /\ handler = "s3" =>
          \A r \in 1..C12_Finished :
              C12_Targets(C12_Records[r], {".json", ".JSON"}) =>
                  /\ \E j \in 1..Len(log) :
                        log[j].op = "get_object" /\ log[j].record = r
                  /\ \E m \in 1..Len(processed_files) :
                        processed_files[m].original_file
                            = UnquotePlus(C12_Records[r].key)

\* a notification whose first record has a key ending in .JSON and whose
\* second record names another bucket
C12_Witness ==
    /\ pc = "done"
    /\ handler = "s3"
    /\ response.statusCode = 200
    /\ Len(C12_Records) = 2
    /\ C12_Records[1].key = <<"b", "+", "c", ".JSON">>
    /\ C12_Records[2].bucket = "other-bucket"
    /\ Len(processed_files) = 1
    /\ \E j \in 1..Len(log) : log[j].op = "translate_text" /\ log[j].record = 1

\* the configuration each persistence target depends on
C13_Targets == {"request_bucket", "response_bucket", "translation_table", "user_data_table"}

C13_Configured(target) ==
    CASE target = "request_bucket" -> env.REQUEST_BUCKET # ""
      [] target = "response_bucket" -> env.RESPONSE_BUCKET # ""
      [] target = "translation_table" -> env.TRANSLATION_TABLE # ""
      [] target = "user_data_table" -> env.USER_DATA_TABLE # ""

\* the put calls issued to a target
C13_Puts(target) ==
    { j \in 1..Len(log) : log[j].op \in {"put_object", "put_item"}
                          /\ log[j].target = target }

\* C13: no put call is issued to a bucket or table that is not configured,
\* and an HTTP request that passed validation still gets 200 with the
\* translation result; a configured target still gets its write.
C13_UnconfiguredIsNoOp ==
    /\ \A target \in C13_Targets : ~C13_Configured(target) => C13_Puts(target) = {}
    /\ (pc = "done" /\ handler = "http" /\ validation_result.valid) =>
          /\ response.statusCode = 200
          /\ response.body.result = translation_result
          /\ \A k \in 1..Len(Items) :
                response.body.result.translations[k].status = OutcomeOf(k)
          /\ \A target \in C13_Targets :
                Cardinality(C13_Puts(target))
                    = IF C13_Configured(target)
                         /\ (target = "user_data_table" => user_id # ANONYMOUS)
                      THEN 1 ELSE 0

\* the response bucket and the translation table are not configured, the
\* request bucket is, and one text was translated
C13_Witness ==
    /\ pc = "done"
    /\ handler = "http"
    /\ env.RESPONSE_BUCKET = ""
    /\ env.TRANSLATION_TABLE = ""
    /\ C13_Puts("request_bucket") # {}
    /\ C13_Puts("user_data_table") # {}
    /\ response.statusCode = 200
    /\ response.body.result.request_metadata.successful_translations = 1

\* an HTTP request has ended with the given status
C14_HttpEnded(status) ==
    pc = "done" /\ handler = "http" /\ response.statusCode = status

\* C14 as claimed: every 400 and every 500 body of the HTTP path carries
\* the fields error, message and timestamp.
C14_Original ==
    (C14_HttpEnded(400) \/ C14_HttpEnded(500)) =>
        {"error", "message", "timestamp"} \subseteq response.body.fields

\* C14 (amended): every 400 and 500 body of the HTTP path carries error and
\* message; a 500 body also carries request_id and timestamp; a 400 body
\* carries no timestamp: it carries example when the body is missing or
\* unusable, and request_id when the validator rejected the request.
C14_ErrorBodyFields ==
    /\ C14_HttpEnded(500) =>
          response.body.fields = {"error", "message", "request_id", "timestamp"}
    /\ C14_HttpEnded(400) =>
          /\ {"error", "message"} \subseteq response.body.fields
          /\ "timestamp" \notin response.body.fields
          /\ response.body.fields
                = IF validation_result = NoValidation
                  THEN {"error", "message", "example"}
                  ELSE {"error", "message", "request_id"}
    /\ (pc = "done" /\ handler = "http") => response.statusCode \in {200, 400, 500}

\* a request rejected by the validator
C14_Witness ==
    /\ C14_HttpEnded(400)
    /\ validation_result.error.code = "missing"
    /\ response.body.message.reason = validation_result.error

\* r is num/den rounded to the nearest integer, a tie going to the even one
C15_IsRounded(r, num, den) ==
    LET twice == 2 * (r * den - num)
        dist == IF twice < 0 THEN -twice ELSE twice
    IN  /\ dist <= den
        /\ dist = den => r % 2 = 0

\* the entries of a result with the given status
C15_Count(result, status) ==
    Cardinality({ k \in 1..Len(result.translations) :
                    result.translations[k].status = status })

\* C15: success_rate is successful / total * 100 rounded to two decimals
\* (kept in hundredths of a percent), total counting every input item, the
\* skipped ones included, and it is 0 when there is no item.
C15_SuccessRateOverAllItems ==
    /\ Returned =>
          LET rate == translation_result.summary.success_rate
              successful == C15_Count(translation_result, "success")
          IN
          /\ C15_IsRounded(rate, successful * 10000, Len(Items))
          /\ successful = translation_result.request_metadata.successful_translations
          /\ (C15_Count(translation_result, "skipped") > 0) => rate < 10000
    /\ pc = "idle" =>
          /\ \A total \in 1..MAX_TEXTS : \A successful \in 0..total :
                C15_IsRounded(SuccessRate(successful, total), successful * 10000, total)
          /\ \A successful \in 0..MAX_TEXTS : SuccessRate(successful, 0) = 0

\* one item translated and one skipped: the rate is 50.00
C15_Witness ==
    /\ Returned
    /\ C15_Count(translation_result, "success") = 1
    /\ C15_Count(translation_result, "skipped") = 1
    /\ C15_Count(translation_result, "error") = 0
    /\ translation_result.summary.success_rate = 5000

\* the entries recorded so far for the request in hand
C16_Entries == IF pc = "translate" THEN translations ELSE translation_result.translations

\* every call made for item k failed
C16_AllFailed(k) == \A j \in CallsFor(k) : ~log[j].ok

C16_ItemsWith(status) ==
    { k \in 1..Len(C16_Entries) : C16_Entries[k].status = status }

\* the retry discipline, in every state of the loop and after it
C16_Attempts ==
    (pc = "translate" \/ Returned) =>
        /\ \A k \in 1..Len(Items) :
              LET n == Cardinality(CallsFor(k)) IN
              /\ n <= 3
              /\ \A j \in CallsFor(k) : log[j].ok => \A m \in CallsFor(k) : m <= j
              /\ k <= Len(C16_Entries) =>
                    /\ ~AllSpaces(Items[k]) => n >= 1
                    /\ C16_Entries[k].status = "error" <=> (n = 3 /\ C16_AllFailed(k))
                    /\ C16_Entries[k].status = "success"
                          <=> \E j \in CallsFor(k) : log[j].ok
                    /\ C16_Entries[k].status = "error" =>
                          C16_Entries[k].reason = "translate_error"
              /\ k = Len(C16_Entries) + 1 => n = retry_count /\ n < 3 /\ C16_AllFailed(k)
              /\ k > Len(C16_Entries) + 1 => n = 0
        /\ Cardinality({ j \in 1..Len(log) : log[j].op = "translate_text"
                                              /\ log[j].record = rec })
              <= 3 * Len(Items)
        /\ pc = "translate" =>
              /\ failed_count = Cardinality(C16_ItemsWith("error"))
              /\ successful_count = Cardinality(C16_ItemsWith("success"))
              /\ i = Len(translations)
              /\ i <= Len(Items)
        /\ Returned =>
              /\ translation_result.request_metadata.failed_translations
                    = Cardinality(C16_ItemsWith("error"))
              /\ translation_result.request_metadata.successful_translations
                    = Cardinality(C16_ItemsWith("success"))

\* the position of the loop: it grows with every pass and every attempt and
\* is at most 3 * N
C16_Position == 3 * i + retry_count

C16_Advances ==
    (pc = "translate" /\ pc' = "translate") =>
        /\ C16_Position' > C16_Position
        /\ C16_Position' <= 3 * Len(Items)

\* C16: each non-blank item is sent to the translation API at least once
\* and at most 3 times, never again after a call succeeded; it is an error
\* only when all 3 attempts failed and a success on a later attempt counts
\* as successful only; a batch of N texts issues at most 3 * N calls and
\* every step of the loop moves it towards its end.
C16_BoundedRetry == [](C16_Attempts) /\ [][C16_Advances]_vars

\* the first item failed three times, the second succeeded on its third
\* attempt: 3 * N calls
C16_Witness ==
    /\ Returned
    /\ Len(Items) = 2
    /\ Cardinality(CallsFor(1)) = 3
    /\ C16_AllFailed(1)
    /\ Cardinality(CallsFor(2)) = 3
    /\ ~C16_AllFailed(2)
    /\ translation_result.request_metadata.failed_translations = 1
    /\ translation_result.request_metadata.successful_translations = 1

\* the storage handler has finished with record r, whose file passed
\* validation and was translated
C17_Translated(r) ==
    /\ handler = "s3"
    /\ r \in 1..C12_Finished
    /\ \E j \in 1..Len(log) :
          log[j].op = "validate" /\ log[j].ok /\ log[j].record = r

\* the position in processed_files of the entry of record r
C17_EntryOf(r) ==
    Cardinality({ q \in 1..r : \E j \in 1..Len(log) :
                    log[j].op = "get_object" /\ log[j].record = q })

\* a put was issued to the target while record r was processed (r is 0 on
\* the HTTP path)
C17_Attempted(target, r) ==
    \E j \in 1..Len(log) :
        /\ log[j].op \in {"put_object", "put_item"}
        /\ log[j].target = target
        /\ log[j].record = r

\* C17 as claimed: on the HTTP and the storage path every persistence
\* write is attempted whatever happened to the others, and no failed write
\* changes the reported outcome: the HTTP status stays 200 and the file's
\* status stays success.
C17_Original ==
    /\ (pc = "done" /\ handler = "http" /\ validation_result.valid) =>
          /\ response.statusCode = 200
          /\ \A target \in {"request_bucket", "translation_table", "response_bucket"} :
                C13_Configured(target) => C17_Attempted(target, 0)
          /\ (C13_Configured("user_data_table") /\ user_id # ANONYMOUS) =>
                C17_Attempted("user_data_table", 0)
    /\ \A r \in 1..Len(C12_Records) :
          C17_Translated(r) =>
              /\ \A target \in {"translation_table", "response_bucket"} :
                    C13_Configured(target) => C17_Attempted(target, r)
              /\ processed_files[C17_EntryOf(r)].status = "success"

\* every collaborator call made while record r was processed succeeded
C18_AllSucceeded(r) ==
    \A j \in 1..Len(log) : log[j].record = r => log[j].ok

\* C18 as claimed: a record of the request bucket with a .json key whose
\* object holds a valid request, all collaborators succeeding, has its
\* complete result written to the response location and is reported with
\* status success.
C18_Original ==
    \A r \in 1..Len(C12_Records) :
        (C17_Translated(r) /\ C18_AllSucceeded(r) /\ env.RESPONSE_BUCKET # "") =>
            /\ \E j \in 1..Len(log) :
                  /\ log[j].op = "put_object"
                  /\ log[j].target = "response_bucket"
                  /\ log[j].record = r
                  /\ log[j].ok
            /\ processed_files[C17_EntryOf(r)].status = "success"
            /\ processed_files[C17_EntryOf(r)].original_file
                  = UnquotePlus(C12_Records[r].key)

\* the place of a log entry in the pass; requestSave is the place of the
\* write of the request object
C19_Rank(entry, requestSave) ==
    CASE entry.op = "handler" -> 0
      [] entry.op = "parse_request_body" -> 1
      [] entry.op = "validate" -> 2
      [] entry.op = "translate_text" -> 4
      [] entry.op = "put_object" /\ entry.target = "request_bucket" -> requestSave
      [] entry.op = "put_item" /\ entry.target = "translation_table" -> 6
      [] entry.op = "put_item" /\ entry.target = "user_data_table" -> 7
      [] entry.op = "put_object" /\ entry.target = "response_bucket" -> 8
      [] OTHER -> 9

\* the loop of perform_translation has finished for the HTTP request
C19_LoopFinished == pc \in {"metadata", "history", "save_response", "done"}

\* the calls of an HTTP invocation follow the order of the ranks; nothing
\* is written before validation has passed, nothing of a rank above that
\* of the translate calls before the loop has finished, and the response
\* is set at the very end, after every configured write was attempted
C19_InOrder(requestSave) ==
    handler = "http" =>
        /\ \A j, m \in 1..Len(log) :
              j < m =>
                  /\ C19_Rank(log[j], requestSave) <= C19_Rank(log[m], requestSave)
                  /\ C19_Rank(log[j], requestSave) = C19_Rank(log[m], requestSave)
                        => log[j].op = "translate_text"
        /\ \A j \in 1..Len(log) :
              /\ C19_Rank(log[j], requestSave) <= 8
              /\ C19_Rank(log[j], requestSave) >= 3 =>
                    /\ validation_result.valid
                    /\ \E m \in 1..(j - 1) : log[m].op = "validate" /\ log[m].ok
              /\ C19_Rank(log[j], requestSave) > 4 => C19_LoopFinished
        /\ response # NoResponse => pc = "done"
        /\ (pc = "done" /\ validation_result.valid) =>
              /\ \A target \in {"request_bucket", "translation_table", "response_bucket"} :
                    C13_Configured(target) => C17_Attempted(target, 0)
              /\ (C13_Configured("user_data_table") /\ user_id # ANONYMOUS) =>
                    C17_Attempted("user_data_table", 0)

\* C19 as claimed: parse, validate, translate, persist, format response;
\* no storage or table write before validation has passed and the
\* translation loop has finished.
C19_Original == C19_InOrder(5)

\* C19 (amended): parse, validate, save the request object, translate,
\* write the metadata row, the history row and the response object, format
\* the response: the request object is written after validation and before
\* the translation loop, every other write after the loop.
C19_LinearPass == C19_InOrder(3)

\* all four writes were issued around two translate calls
C19_Witness ==
    /\ pc = "done"
    /\ handler = "http"
    /\ response.statusCode = 200
    /\ \A target \in C13_Targets : C17_Attempted(target, 0)
    /\ Cardinality({ j \in 1..Len(log) : log[j].op = "translate_text" }) = 2
    /\ log[3].op = "validate"
    /\ log[4].op = "put_object"
    /\ log[5].op = "translate_text"

\* the markers of the keys this function writes
C20_OutputPrefixes == {"api-request-", "file-request-", "s3-response-"}

\* C20 as claimed: a record whose key carries an output-prefix marker is
\* skipped by the storage handler, so the request its object holds is not
\* translated again and no row is written for it.
C20_Original ==
    handler = "s3" =>
        \A r \in 1..Len(C12_Records) :
            (C12_Records[r].wellformed /\ C12_Records[r].key # <<>>
                /\ C12_Records[r].key[1] \in C20_OutputPrefixes) =>
                    \A j \in 1..Len(log) :
                        log[j].record = r =>
                            log[j].op \notin {"translate_text", "put_item",
                                              "put_object"}

\* the table writes the request in hand calls for have all been made
C21_TablesDone ==
    \/ handler = "http" /\ pc \in {"save_response", "done"} /\ validation_result.valid
    \/ handler = "s3" /\ pc = "s3_result"

\* the record the request in hand belongs to (0 on the HTTP path)
C21_Record == IF handler = "s3" THEN rec ELSE 0

\* after the translation the metadata row is written when its table is
\* configured and the history row when its table is configured and the
\* user is not anonymous, whatever the outcome of the metadata write
C21_Writes ==
    /\ C21_TablesDone =>
          /\ C17_Attempted("translation_table", C21_Record)
                <=> C13_Configured("translation_table")
          /\ C17_Attempted("user_data_table", C21_Record)
                <=> (C13_Configured("user_data_table") /\ user_id # ANONYMOUS)
    /\ \A r \in 1..Len(C12_Records) :
          (C17_Translated(r) /\ C13_Configured("translation_table")) =>
              C17_Attempted("translation_table", r)
    /\ pc = "history" => user_id # ANONYMOUS

\* save_translation_metadata is followed by save_user_translation_history
\* exactly when the user is not anonymous, and neither call ends the request
C21_Calls ==
    /\ pc = "metadata" =>
          pc' = IF user_id # ANONYMOUS THEN "history"
                ELSE IF handler = "http" THEN "save_response" ELSE "s3_result"
    /\ pc = "history" => pc' = IF handler = "http" THEN "save_response" ELSE "s3_result"
    /\ pc' = "history" => pc \in {"metadata", "history"}
    /\ (pc # "metadata" /\ pc' = "metadata") => pc = "translate"

\* C21: on the HTTP and the storage path, after a validated request was
\* translated, the metadata-row write is always attempted and the
\* history-row write exactly when the resolved user id is not 'anonymous';
\* a failed metadata write does not suppress the history write.
C21_TableWrites == [](C21_Writes) /\ [][C21_Calls]_vars

\* the metadata write failed and the history row was written all the same
C21_Witness ==
    /\ C21_TablesDone
    /\ user_id = <<"u1">>
    /\ \E j \in 1..Len(log) :
          log[j].op = "put_item" /\ log[j].target = "translation_table" /\ ~log[j].ok
    /\ \E j \in 1..Len(log) :
          log[j].op = "put_item" /\ log[j].target = "user_data_table" /\ log[j].ok

\* a storage notification all of whose records carry a bucket name and an
\* object key
C22_WellFormed ==
    /\ handler = "s3"
    /\ ~RecordsRaise(event)
    /\ \A r \in 1..Len(C12_Records) : C12_Records[r].wellformed

\* the positions of the eligible records among the first n, in
\* notification order
RECURSIVE C22_EligibleRecords(_)
C22_EligibleRecords(n) ==
    IF n = 0 THEN <<>>
    ELSE IF Eligible(C12_Records[n])
         THEN Append(C22_EligibleRecords(n - 1), n)
         ELSE C22_EligibleRecords(n - 1)

\* a call made for record r failed
C22_Failed(op, target, r) ==
    \E j \in 1..Len(log) :
        /\ log[j].op = op
        /\ log[j].target = target
        /\ log[j].record = r
        /\ ~log[j].ok

\* the entry of processed_files at position m is the entry of record r
C22_EntryFor(m, r) ==
    LET entry == processed_files[m] IN
    /\ entry.original_file = UnquotePlus(C12_Records[r].key)
    /\ entry.status \in {"success", "error"}
    /\ entry.status = "error" <=> entry.error_type # ""
    /\ C22_Failed("get_object", "request_bucket", r) =>
          entry.status = "error" /\ entry.error_type = "ClientError"
    /\ C22_Failed("validate", "", r) =>
          entry.status = "error" /\ entry.error_type = "ValueError"
    /\ C22_Failed("put_object", "response_bucket", r) => entry.status = "error"

\* C22: on the storage path the failure of one eligible record's file is
\* confined to that record: it becomes that record's entry with status
\* error, the loop goes on to the later records, processed_files holds one
\* entry per eligible record in notification order, and handle_s3_event
\* returns statusCode 200 with these entries.
C22_FailureConfined ==
    C22_WellFormed =>
        LET eligible == C22_EligibleRecords(C12_Finished) IN
        /\ Len(processed_files) = Len(eligible)
        /\ \A m \in 1..Len(eligible) : C22_EntryFor(m, eligible[m])
        /\ pc = "done" =>
              /\ rec = Len(C12_Records)
              /\ response.statusCode = 200
              /\ response.body.files = processed_files

\* two eligible records: the first file could not be read, the second was
\* translated all the same, and the response carries both entries
C22_Witness ==
    /\ C22_WellFormed
    /\ pc = "done"
    /\ response.statusCode = 200
    /\ Len(C12_Records) = 2
    /\ Len(processed_files) = 2
    /\ processed_files[1].status = "error"
    /\ processed_files[1].error_type = "ClientError"
    /\ C22_Failed("get_object", "request_bucket", 1)
    /\ \E j \in 1..Len(log) :
          log[j].op = "translate_text" /\ log[j].ok /\ log[j].record = 2

====
